---- MODULE Spec2Model ----
(***************************************************************************)
(* A model of arxiv_fetcher.py: the OAI-PMH harvest loop                   *)
(* (fetch_arxiv_records) and the merge / deduplicate / prune step of the   *)
(* script body (__main__).                                                 *)
(*                                                                         *)
(* Text that the code takes apart (set specs, category codes) is a         *)
(* sequence of one-character strings.  Dates are day numbers; a formatted  *)
(* date 'YYYY-MM-DD' orders as its day number, and the sentinel 'N/A'      *)
(* orders after every formatted date ('N' > '0'..'9').                     *)
(***************************************************************************)
EXTENDS Integers, Sequences, FiniteSets, TLC

\* ------------------------------------------------------------------ bounds
\* pages one harvest may be served before the upstream stops sending tokens
MaxPages == 2
\* days the clock may advance over the runs of the script
MaxDays == 1
\* records of a snapshot, and of a fresh batch, handed to the merge directly
MaxSnapshot == 2
MaxBatch == 2
\* set specs of a header handed to the matching rule directly
MaxSpecs == 2

\* ------------------------------------------------------- program constants
max_retries == 3
RETENTION_DAYS == 14
\* time.sleep(3) between pages
PageDelay == 3
\* the day of the first run
FirstDay == 15
\* the key of the default 'N/A' in a date comparison: after every date
NA == 1000
\* a datestamp text that is not of the form YYYY-MM-DD; it sorts after the
\* dates in use
BadStamp == 2000

\* -------------------------------------------------------------------- text
Dot == "."
Colon == ":"

\* str.split(sep): the pieces of s between the separators
RECURSIVE SplitAcc(_, _, _, _)
SplitAcc(s, sep, cur, acc) ==
    IF s = <<>> THEN Append(acc, cur)
    ELSE IF Head(s) = sep THEN SplitAcc(Tail(s), sep, <<>>, Append(acc, cur))
    ELSE SplitAcc(Tail(s), sep, Append(cur, Head(s)), acc)

Split(s, sep) == SplitAcc(s, sep, <<>>, <<>>)

\* str.endswith(suffix)
EndsWith(s, suffix) ==
    /\ Len(suffix) <= Len(s)
    /\ SubSeq(s, Len(s) - Len(suffix) + 1, Len(s)) = suffix

\* sub in s
Contains(s, sub) ==
    \E i \in 1..(Len(s) - Len(sub) + 1) : SubSeq(s, i, i + Len(sub) - 1) = sub

\* code points of the characters in use, ascending
Alphabet == <<".", ":", "A", "C", "G", "I", "L", "V", "c", "h", "i", "p", "s", "x", "y">>

Ord(c) == CHOOSE i \in 1..Len(Alphabet) : Alphabet[i] = c

\* s < t as Python orders strings
RECURSIVE StrLess(_, _)
StrLess(s, t) ==
    IF t = <<>> THEN FALSE
    ELSE IF s = <<>> THEN TRUE
    ELSE IF Head(s) = Head(t) THEN StrLess(Tail(s), Tail(t))
    ELSE Ord(Head(s)) < Ord(Head(t))

\* sorted(list(set(...)))
RECURSIVE SortedStrs(_)
SortedStrs(S) ==
    IF S = {} THEN <<>>
    ELSE LET m == CHOOSE x \in S : \A y \in S \ {x} : StrLess(x, y)
         IN <<m>> \o SortedStrs(S \ {m})

\* ----------------------------------------------------------- upstream data
\* text literals, as character sequences
cs_AI == <<"c", "s", ".", "A", "I">>
cs_LG == <<"c", "s", ".", "L", "G">>
cs == <<"c", "s">>
set_cs_AI == <<"c", "s", ":", "c", "s", ":", "A", "I">>
set_cs_LG == <<"c", "s", ":", "c", "s", ":", "L", "G">>
set_cs_CV == <<"c", "s", ":", "c", "s", ":", "C", "V">>
set_short_AI == <<"c", "s", ":", "A", "I">>

\* One <record> of a response.  Each dc field is the list of its elements
\* that carry text, in document order; has_meta says whether the record has
\* an oai_dc:dc block at all.
Raw(del, specs, meta, stamp, ids, dates, titles, creators) ==
    [deleted |-> del, set_specs |-> specs, has_meta |-> meta, datestamp |-> stamp,
     identifier |-> ids, date |-> dates, title |-> titles, description |-> titles,
     creator |-> creators, subject |-> <<>>]

RawA1 == Raw(FALSE, <<set_cs_AI>>, TRUE, 15, <<"a">>, <<1>>, <<"t1">>, <<"ann", "bob">>)
RawA2 == Raw(FALSE, <<set_cs_LG, set_cs_AI>>, TRUE, 16, <<"a", "z">>, <<3>>, <<"$x$">>, <<"ann">>)
RawB == Raw(FALSE, <<set_short_AI>>, TRUE, 19, <<"b">>, <<2>>, <<"t1">>, <<>>)
RawOld == Raw(FALSE, <<set_cs_LG>>, TRUE, 15, <<"c">>, <<0>>, <<"t1">>, <<"bob">>)
RawBare == Raw(FALSE, <<set_cs_AI>>, TRUE, BadStamp, <<>>, <<>>, <<>>, <<>>)
RawDeleted == Raw(TRUE, <<set_cs_AI>>, TRUE, 16, <<"e">>, <<3>>, <<"t2">>, <<"ann">>)
RawOther == Raw(FALSE, <<set_cs_CV>>, TRUE, 16, <<"d">>, <<3>>, <<"t2">>, <<"bob">>)
RawNoMeta == Raw(FALSE, <<set_cs_AI>>, FALSE, 16, <<>>, <<>>, <<>>, <<>>)

\* the pages the upstream may serve
PagePool ==
    << <<>>,
       <<RawA1, RawDeleted, RawB>>,
       <<RawOther, RawA1, RawNoMeta, RawA2>>,
       <<RawOld, RawBare>> >>

\* resumptionToken of a response: no element, an element without text, a token
NoToken == "none"
Tokens == {"tok1", "tok2"}

\* the filters fetch_arxiv_records is called with; <<>> is None or []
target_categories == <<cs_AI, cs_LG>>
CategoryChoices == {<<>>, <<cs_AI>>, <<cs>>, target_categories, <<cs_LG, cs_AI>>}

\* ------------------------------------------------- fetch_arxiv_records
\* get_text_list(metadata_block, element_name, namespaces)
get_text_list(raw, element_name) == raw[element_name]

\* a get_first whose default is the empty text
get_first_Blank(raw, key) ==
    LET vals == get_text_list(raw, key)
    IN IF vals /= <<>> THEN vals[1] ELSE ""

\* get_first(key, default): text fields default to 'N/A'
get_first(raw, key) ==
    LET vals == get_text_list(raw, key)
    IN IF vals /= <<>> THEN vals[1] ELSE "N/A"

\* get_first('date'): the default 'N/A' is kept as its comparison key NA
get_first_date(raw) ==
    LET vals == get_text_list(raw, "date")
    IN IF vals /= <<>> THEN vals[1] ELSE NA

\* convert_latex_to_mathml: text without $...$ or \(...\) is returned as it
\* is, a math span is replaced by the converter's markup
convert_latex_to_mathml(text) ==
    IF text = "$x$" THEN "<math>x</math>" ELSE text

clean_category(set_spec) ==
    LET parts == Split(set_spec, Colon)
    IN IF Len(parts) = 3 THEN parts[2] \o <<Dot>> \o parts[3]
       ELSE IF Len(parts) = 2 THEN parts[2]
       ELSE set_spec

categories_cleaned(set_specs) ==
    SortedStrs({clean_category(set_specs[i]) : i \in 1..Len(set_specs)})

\* a rule whose suffix lacks the leading colon
CodeMatches_NoColon(cat, set_specs) ==
    LET parts == Split(cat, Dot)
    IN IF Len(parts) = 2
       THEN \E i \in 1..Len(set_specs) :
                EndsWith(set_specs[i], parts[1] \o <<Colon>> \o parts[2])
       ELSE \E i \in 1..Len(set_specs) : Contains(set_specs[i], cat)

\* the body of "for cat in categories": does cat match one of the set specs
CodeMatches(cat, set_specs) ==
    LET parts == Split(cat, Dot)
    IN IF Len(parts) = 2
       THEN LET archive == parts[1]
                subject_class == parts[2]
                expected_suffix == <<Colon>> \o archive \o <<Colon>> \o subject_class
            IN \E i \in 1..Len(set_specs) :
                  \/ set_specs[i] = archive \o <<Colon>> \o subject_class
                  \/ EndsWith(set_specs[i], expected_suffix)
       ELSE \E i \in 1..Len(set_specs) : Contains(set_specs[i], cat)

\* a filter that asks for every code to match
matched_any_All(categories, set_specs) ==
    \A k \in 1..Len(categories) : CodeMatches(categories[k], set_specs)

\* the loop over categories, left at the first match
RECURSIVE matched_any(_, _)
matched_any(categories, set_specs) ==
    IF categories = <<>> THEN FALSE
    ELSE IF CodeMatches(Head(categories), set_specs) THEN TRUE
    ELSE matched_any(Tail(categories), set_specs)

record_data(raw) ==
    [title |-> convert_latex_to_mathml(get_first(raw, "title")),
     creators |-> get_text_list(raw, "creator"),
     subjects |-> get_text_list(raw, "subject"),
     categories |-> categories_cleaned(raw.set_specs),
     description |-> convert_latex_to_mathml(get_first(raw, "description")),
     date |-> get_first_date(raw),
     announcement_date |-> raw.datestamp,
     identifier |-> get_first(raw, "identifier")]

\* a record loop without the check of the header's status
Appended_KeepDeleted(raw, categories) ==
    /\ raw.has_meta
    /\ categories /= <<>> => matched_any(categories, raw.set_specs)

\* one pass of "for record in records": is the record appended
Appended(raw, categories) ==
    /\ ~raw.deleted
    /\ raw.has_meta
    /\ categories /= <<>> => matched_any(categories, raw.set_specs)

\* "for record in records", appending to all_records
RECURSIVE ProcessRecords(_, _, _)
ProcessRecords(records, categories, acc) ==
    IF records = <<>> THEN acc
    ELSE ProcessRecords(Tail(records), categories,
                        IF Appended(Head(records), categories)
                        THEN Append(acc, record_data(Head(records)))
                        ELSE acc)

\* the query of the first request
FirstParams(start_date, end_date, categories) ==
    IF categories /= <<>>
    THEN [verb |-> "ListRecords", metadataPrefix |-> "oai_dc",
          from |-> start_date, until |-> end_date,
          set |-> Split(categories[1], Dot)[1]]
    ELSE [verb |-> "ListRecords", metadataPrefix |-> "oai_dc",
          from |-> start_date, until |-> end_date]

\* a backoff that starts one power too low
Backoff_FromZero(n) == 2 ^ (n - 1)

\* wait_time = 2 ** retry_count
Backoff(n) == 2 ^ n

\* ------------------------------------------------------------- __main__
\* articles_map[a['identifier']] = a on a dict, which keeps insertion order:
\* a known key keeps its place and takes the new value
\* an overlay that appends without looking for the key
DictPut_Append(m, a) == Append(m, a)

\* an overlay in which the entry already there wins
DictPut_KeepOld(m, a) ==
    IF \E i \in 1..Len(m) : m[i].identifier = a.identifier THEN m ELSE Append(m, a)

DictPut(m, a) ==
    IF \E i \in 1..Len(m) : m[i].identifier = a.identifier
    THEN [i \in 1..Len(m) |-> IF m[i].identifier = a.identifier THEN a ELSE m[i]]
    ELSE Append(m, a)

RECURSIVE DictPutAll(_, _)
DictPutAll(m, articles) ==
    IF articles = <<>> THEN m
    ELSE DictPutAll(DictPut(m, Head(articles)), Tail(articles))

\* list(articles_map.values()) after seeding from existing and overlaying new
all_articles(existing, new) == DictPutAll(DictPutAll(<<>>, existing), new)

\* a prune that drops nothing
KeepArticle_All(a, prune_date) == TRUE

\* a prune that also drops the records dated on the cutoff
KeepArticle_Strict(a, prune_date) == a.date > prune_date

\* a_date_str and a_date_str >= prune_date_str
KeepArticle(a, prune_date) == a.date >= prune_date

filtered_articles(articles, prune_date) ==
    SelectSeq(articles, LAMBDA a : KeepArticle(a, prune_date))

\* an insertion that puts a record before the records of its date
RECURSIVE InsertDesc_Unstable(_, _)
InsertDesc_Unstable(sorted, a) ==
    IF sorted = <<>> THEN <<a>>
    ELSE IF Head(sorted).date > a.date
         THEN <<Head(sorted)>> \o InsertDesc_Unstable(Tail(sorted), a)
    ELSE <<a>> \o sorted

\* list.sort(key=date, reverse=True) is stable: equal dates keep their order
RECURSIVE InsertDesc(_, _)
InsertDesc(sorted, a) ==
    IF sorted = <<>> THEN <<a>>
    ELSE IF Head(sorted).date >= a.date THEN <<Head(sorted)>> \o InsertDesc(Tail(sorted), a)
    ELSE <<a>> \o sorted

\* a sort that was left out
SortDesc_Unsorted(articles, sorted) == articles

RECURSIVE SortDesc(_, _)
SortDesc(articles, sorted) ==
    IF articles = <<>> THEN sorted
    ELSE SortDesc(Tail(articles), InsertDesc(sorted, Head(articles)))

\* the merge, deduplicate, prune and sort of the script body
Reconciled(existing, new, prune_date) ==
    SortDesc(filtered_articles(all_articles(existing, new), prune_date), <<>>)

\* max(existing_articles, key=announcement_date): the first greatest one
latest_entry(existing) ==
    LET i == CHOOSE i \in 1..Len(existing) :
                 /\ \A j \in 1..Len(existing) :
                        existing[j].announcement_date <= existing[i].announcement_date
                 /\ \A j \in 1..(i - 1) :
                        existing[j].announcement_date < existing[i].announcement_date
    IN existing[i]

\* date.fromisoformat raises ValueError on a text that is no YYYY-MM-DD
IsIsoDate(text) == text /= BadStamp

\* the start date without the check against today
StartDate_NoClamp(existing, day) ==
    IF existing /= <<>> /\ IsIsoDate(latest_entry(existing).announcement_date)
    THEN latest_entry(existing).announcement_date
    ELSE day - RETENTION_DAYS

\* start_date as the script computes it before the harvest
StartDate(existing, day) ==
    LET from_file == IF existing /= <<>>
                        /\ IsIsoDate(latest_entry(existing).announcement_date)
                     THEN latest_entry(existing).announcement_date
                     ELSE day - RETENTION_DAYS
    IN IF from_file > day THEN day ELSE from_file

\* a load that hands over the file's records although the read failed
LoadExisting_IgnoreError(exists, readable, content) ==
    IF exists THEN content ELSE <<>>

\* existing_articles after the try block around json.load
LoadExisting(exists, readable, content) ==
    IF exists /\ readable THEN content ELSE <<>>

\* ---------------------------------------------------------------- state
VARIABLES
    pc,                \* where the script is: idle, request, parse, returned
    today,             \* the clock's day
    file_exists, file, \* the output file and the snapshot it holds
    existing_articles, start_date, prune_date, categories,
    params, all_records, retry_count, response, new_articles,
    exit,              \* the return of fetch_arxiv_records that was taken
    wrote,             \* whether the run wrote the output file
    waits,             \* the sleeps since the last response, in order
    served,            \* the pages served to this harvest, as PagePool indices
    last_token,        \* the token of the last page served
    attempts,          \* requests sent for the current page
    total_attempts,    \* requests sent by this harvest
    ok_requests,       \* requests of this harvest that were answered
    loaded,            \* how the run found the output file: absent, read, error
    probe              \* a call of the per-code matching rule: arguments, result

vars == <<pc, today, file_exists, file, existing_articles, start_date, prune_date,
          categories, params, all_records, retry_count, response, new_articles, exit,
          wrote, waits, served, last_token, attempts, total_attempts, ok_requests,
          loaded, probe>>

main_vars == <<today, file_exists, file, existing_articles, prune_date, wrote, loaded,
               probe>>

NoProbe == [cat |-> <<>>, set_specs |-> <<>>, done |-> FALSE, matched |-> FALSE]

\* a follow-up query that adds the token to the query already in use
TokenParams_KeepWindow(token) == ("resumptionToken" :> token) @@ params

\* the query of a follow-up request
TokenParams(token) == [verb |-> "ListRecords", resumptionToken |-> token]

NoResponse == [kind |-> "none", code |-> "", page |-> 0, token |-> NoToken]

\* what the upstream may answer to the next request of this harvest: an
\* error document, or a page; only the last of MaxPages pages must come
\* without a token
Responses ==
    {[kind |-> "error", code |-> c, page |-> 0, token |-> NoToken] :
        c \in {"noRecordsMatch", "badArgument"}}
    \cup
    {[kind |-> "page", code |-> "", page |-> p, token |-> t] :
        p \in 1..Len(PagePool),
        t \in {NoToken, ""} \cup (IF Len(served) + 1 < MaxPages THEN Tokens ELSE {})}

\* the locals of fetch_arxiv_records at its first request
EnterFetch(from_date, end_date, cats) ==
    /\ start_date' = from_date
    /\ categories' = cats
    /\ params' = FirstParams(from_date, end_date, cats)
    /\ all_records' = <<>>
    /\ retry_count' = 0
    /\ response' = NoResponse
    /\ new_articles' = <<>>
    /\ exit' = "none"
    /\ waits' = <<>>
    /\ served' = <<>>
    /\ last_token' = NoToken
    /\ attempts' = 0
    /\ total_attempts' = 0
    /\ ok_requests' = 0
    /\ pc' = "request"

Init ==
    /\ pc = "idle"
    /\ today = FirstDay
    /\ file_exists = FALSE
    /\ file = <<>>
    /\ existing_articles = <<>>
    /\ start_date = FirstDay - RETENTION_DAYS
    /\ prune_date = FirstDay - RETENTION_DAYS
    /\ categories = target_categories
    /\ params = FirstParams(FirstDay - RETENTION_DAYS, FirstDay, target_categories)
    /\ all_records = <<>>
    /\ retry_count = 0
    /\ response = NoResponse
    /\ new_articles = <<>>
    /\ exit = "none"
    /\ wrote = FALSE
    /\ waits = <<>>
    /\ served = <<>>
    /\ last_token = NoToken
    /\ attempts = 0
    /\ total_attempts = 0
    /\ ok_requests = 0
    /\ loaded = "absent"
    /\ probe = NoProbe

\* The script starts: it reads the clock and the output file, derives the
\* window and calls fetch_arxiv_records, which prepares its first request.
StartRun ==
    /\ pc = "idle"
    /\ \E day \in today..(FirstDay + MaxDays), readable \in BOOLEAN :
         LET existing == LoadExisting(file_exists, readable, file)
         IN /\ today' = day
            /\ loaded' = IF ~file_exists THEN "absent"
                         ELSE IF readable THEN "read" ELSE "error"
            /\ existing_articles' = existing
            /\ prune_date' = day - RETENTION_DAYS
            /\ EnterFetch(StartDate(existing, day), day, target_categories)
    /\ wrote' = FALSE
    /\ UNCHANGED <<file_exists, file, probe>>

\* session.get raises: the attempt is counted, then a backoff sleep and a new
\* attempt, or the return after max_retries failures
FailedReturn == <<>>

\* a retry loop that never gives up
CanRetry_Always(n) == TRUE

\* after the n-th failed attempt of a page: is another attempt made?
CanRetry(n) == n < max_retries

AttemptFails ==
    /\ pc = "request"
    /\ retry_count < max_retries
    /\ retry_count' = retry_count + 1
    /\ attempts' = attempts + 1
    /\ total_attempts' = total_attempts + 1
    /\ IF CanRetry(retry_count + 1)
       THEN /\ waits' = Append(waits, Backoff(retry_count + 1))
            /\ UNCHANGED <<pc, new_articles, exit>>
       ELSE /\ new_articles' = FailedReturn
            /\ exit' = "transport"
            /\ pc' = "returned"
            /\ UNCHANGED waits
    /\ UNCHANGED <<main_vars, start_date, categories, params, all_records, response,
                   served, last_token, ok_requests>>

\* session.get returns a response with a success status
AttemptSucceeds ==
    /\ pc = "request"
    /\ retry_count < max_retries
    /\ \E r \in Responses : response' = r
    /\ attempts' = attempts + 1
    /\ total_attempts' = total_attempts + 1
    /\ ok_requests' = ok_requests + 1
    /\ pc' = "parse"
    /\ UNCHANGED <<main_vars, start_date, categories, params, all_records, retry_count, new_articles,
                   exit, waits, served, last_token>>

\* the response carries an <error>
ErrorReturn == <<>>

ParseError ==
    /\ pc = "parse"
    /\ response.kind = "error"
    /\ new_articles' = ErrorReturn
    /\ exit' = IF response.code = "noRecordsMatch" THEN "noRecordsMatch" ELSE "oaiError"
    /\ pc' = "returned"
    /\ UNCHANGED <<main_vars, start_date, categories, params, all_records, retry_count,
                   response, waits, served, last_token, attempts, total_attempts,
                   ok_requests>>

\* token_element is not None and token_element.text
HasToken(token) == token /= NoToken /\ token /= ""

\* an accumulator that is started again on every page
Accumulate_Restart(acc, records, cats) == ProcessRecords(records, cats, <<>>)

\* all_records after the records of a page were processed
Accumulate(acc, records, cats) == ProcessRecords(records, cats, acc)

\* a retry counter that is set once, before the page loop
FreshRetryCount_Stale == retry_count

\* retry_count at the top of "while True"
FreshRetryCount == 0

\* the response carries records: they are processed, then the loop goes on
\* with the token after the inter-page sleep, or ends
ParsePage ==
    /\ pc = "parse"
    /\ response.kind = "page"
    /\ all_records' = Accumulate(all_records, PagePool[response.page], categories)
    /\ served' = Append(served, response.page)
    /\ last_token' = response.token
    /\ IF HasToken(response.token)
       THEN /\ params' = TokenParams(response.token)
            /\ waits' = <<PageDelay>>
            /\ retry_count' = FreshRetryCount
            /\ attempts' = 0
            /\ pc' = "request"
            /\ UNCHANGED <<new_articles, exit>>
       ELSE /\ new_articles' = all_records'
            /\ exit' = "exhausted"
            /\ pc' = "returned"
            /\ UNCHANGED <<params, waits, retry_count, attempts>>
    /\ UNCHANGED <<main_vars, start_date, categories, response, total_attempts,
                   ok_requests>>

\* the locals of fetch_arxiv_records are gone once the script is over
LeaveFetch ==
    /\ params' = TokenParams(NoToken)
    /\ all_records' = <<>>
    /\ retry_count' = 0
    /\ response' = NoResponse
    /\ waits' = <<>>
    /\ served' = <<>>
    /\ last_token' = NoToken
    /\ attempts' = 0
    /\ total_attempts' = 0
    /\ ok_requests' = 0

\* a merge that runs only when the harvest brought something
ShouldMerge_OnlyNew(new, existing) == new /= <<>>

\* if new_articles or existing_articles
ShouldMerge(new, existing) == new /= <<>> \/ existing /= <<>>

\* the script merges, prunes, sorts and writes, or reports that there is
\* nothing; then the process ends
Reconcile ==
    /\ pc = "returned"
    /\ IF ShouldMerge(new_articles, existing_articles)
       THEN /\ file' = Reconciled(existing_articles, new_articles, prune_date)
            /\ file_exists' = TRUE
            /\ wrote' = TRUE
       ELSE UNCHANGED <<file, file_exists, wrote>>
    /\ pc' = "idle"
    /\ LeaveFetch
    /\ UNCHANGED <<today, existing_articles, start_date, prune_date, categories,
                   new_articles, exit, loaded, probe>>

Next == StartRun \/ AttemptFails \/ AttemptSucceeds \/ ParseError \/ ParsePage \/ Reconcile

Spec == Init /\ [][Next]_vars

\* fetch_arxiv_records called on its own, with any window and filter
InitFetch ==
    /\ today = FirstDay
    /\ file_exists = FALSE
    /\ file = <<>>
    /\ existing_articles = <<>>
    /\ prune_date = FirstDay - RETENTION_DAYS
    /\ wrote = FALSE
    /\ \E cats \in CategoryChoices, from_date \in (FirstDay - 1)..FirstDay :
         /\ start_date = from_date
         /\ categories = cats
         /\ params = FirstParams(from_date, FirstDay, cats)
    /\ all_records = <<>>
    /\ retry_count = 0
    /\ response = NoResponse
    /\ new_articles = <<>>
    /\ exit = "none"
    /\ waits = <<>>
    /\ served = <<>>
    /\ last_token = NoToken
    /\ attempts = 0
    /\ total_attempts = 0
    /\ ok_requests = 0
    /\ loaded = "absent"
    /\ probe = NoProbe
    /\ pc = "request"

NextFetch == AttemptFails \/ AttemptSucceeds \/ ParseError \/ ParsePage

SpecFetch == InitFetch /\ [][NextFetch]_vars

\* the harvest as a running call: the interpreter keeps taking the next step
\* of the function until it returns
SpecFetchFair == InitFetch /\ [][NextFetch]_vars /\ WF_vars(NextFetch)

\* the merge step called on its own, with any snapshot, batch and cutoff
SeqsUpTo(S, n) == UNION {[1..k -> S] : k \in 0..n}

RecordPool == {record_data(r) : r \in {RawA1, RawA2, RawB, RawOld, RawBare, RawOther}}

InitReconcile ==
    /\ today \in FirstDay..(FirstDay + MaxDays)
    /\ prune_date = today - RETENTION_DAYS
    /\ file_exists = TRUE
    /\ existing_articles \in SeqsUpTo(RecordPool, MaxSnapshot)
    /\ file = existing_articles
    /\ new_articles \in SeqsUpTo(RecordPool, MaxBatch)
    /\ start_date = today - RETENTION_DAYS
    /\ categories = target_categories
    /\ params = TokenParams(NoToken)
    /\ all_records = <<>>
    /\ retry_count = 0
    /\ response = NoResponse
    /\ exit = "exhausted"
    /\ wrote = FALSE
    /\ waits = <<>>
    /\ served = <<>>
    /\ last_token = NoToken
    /\ attempts = 0
    /\ total_attempts = 0
    /\ ok_requests = 0
    /\ loaded = "absent"
    /\ probe = NoProbe
    /\ pc = "returned"

NextReconcile == Reconcile

SpecReconcile == InitReconcile /\ [][NextReconcile]_vars

\* the per-code matching rule called on its own, with any code and set specs
x_cs_AI == <<"x", ":", "c", "s", ":", "A", "I">>
xcs_AI == <<"x", "c", "s", ":", "A", "I">>
cs_AI_x == <<"c", "s", ":", "A", "I", ":", "x">>
set_short_LG == <<"c", "s", ":", "L", "G">>
physics == <<"p", "h", "y", "s", "i", "c", "s">>
dotted == <<"c", "s", ".", "A", "I", ".", "x">>
AI == <<"A", "I">>
s_AI == <<"s", ".", "A", "I">>

CodePool == {cs_AI, cs_LG, cs, AI, s_AI, dotted}
SetSpecPool == {set_short_AI, set_cs_AI, x_cs_AI, xcs_AI, cs_AI_x, set_short_LG,
                physics, dotted, cs_AI}

InitMatch ==
    /\ today = FirstDay
    /\ file_exists = FALSE
    /\ file = <<>>
    /\ existing_articles = <<>>
    /\ start_date = FirstDay - RETENTION_DAYS
    /\ prune_date = FirstDay - RETENTION_DAYS
    /\ wrote = FALSE
    /\ categories = <<>>
    /\ params = TokenParams(NoToken)
    /\ all_records = <<>>
    /\ retry_count = 0
    /\ response = NoResponse
    /\ new_articles = <<>>
    /\ exit = "none"
    /\ waits = <<>>
    /\ served = <<>>
    /\ last_token = NoToken
    /\ attempts = 0
    /\ total_attempts = 0
    /\ ok_requests = 0
    /\ loaded = "absent"
    /\ pc = "match"
    /\ \E cat \in CodePool, specs \in SeqsUpTo(SetSpecPool, MaxSpecs) :
          probe = [cat |-> cat, set_specs |-> specs, done |-> FALSE, matched |-> FALSE]

\* one pass of "for cat in categories" for the probe's code
MatchCode ==
    /\ pc = "match"
    /\ ~probe.done
    /\ probe' = [probe EXCEPT !.done = TRUE,
                              !.matched = CodeMatches(probe.cat, probe.set_specs)]
    /\ UNCHANGED <<pc, today, file_exists, file, existing_articles, start_date, prune_date,
                   categories, params, all_records, retry_count, response, new_articles,
                   exit, wrote, waits, served, last_token, attempts, total_attempts,
                   ok_requests, loaded>>

NextMatch == MatchCode

SpecMatch == InitMatch /\ [][NextMatch]_vars

\* ================================================================ claims
\* What a harvest is expected to return, stated on the pages served: the
\* records that are not deleted, carry a metadata block and pass the filter,
\* page after page, each page in document order.
Matched(raw, cats) ==
    /\ ~raw.deleted
    /\ raw.has_meta
    /\ cats = <<>> \/ \E k \in 1..Len(cats) : CodeMatches(cats[k], raw.set_specs)

MatchedOfPage(page, cats) ==
    LET sel == SelectSeq(page, LAMBDA r : Matched(r, cats))
    IN [i \in 1..Len(sel) |-> record_data(sel[i])]

RECURSIVE MatchedOfPages(_, _)
MatchedOfPages(pages, cats) ==
    IF pages = <<>> THEN <<>>
    ELSE MatchedOfPage(PagePool[Head(pages)], cats) \o MatchedOfPages(Tail(pages), cats)

\* the harvest ended in Failed / in Done
Failed == exit \in {"transport", "oaiError"}
Done == exit \in {"noRecordsMatch", "exhausted"}

\* the backoff sleeps of the current page: waits without the inter-page sleep
BackoffWaits == IF served /= <<>> /\ waits /= <<>> THEN Tail(waits) ELSE waits

\* C1: when the request for page k fails terminally after pages 1..k-1 were
\* parsed, fetch_arxiv_records returns exactly the matched records of pages
\* 1..k-1.
C1_PartialOnTransportFailure ==
    exit = "transport" => new_articles = MatchedOfPages(served, categories)

\* C2: when the response for page k carries an error element, pagination
\* stops and fetch_arxiv_records returns the matched records of pages 1..k-1.
C2_PartialOnProtocolError ==
    exit \in {"noRecordsMatch", "oaiError"} =>
        /\ pc = "returned" \/ pc = "idle"
        /\ new_articles = MatchedOfPages(served, categories)

\* the elements of a list
Range(q) == {q[i] : i \in 1..Len(q)}

\* the identifiers of a list of articles
Ids(articles) == {articles[i].identifier : i \in 1..Len(articles)}

\* the last record of a list that has the identifier
LastWith(articles, id) ==
    articles[CHOOSE i \in 1..Len(articles) :
                 /\ articles[i].identifier = id
                 /\ \A j \in (i + 1)..Len(articles) : articles[j].identifier /= id]

\* the script is over and its harvest ended in Failed
RunOverFailed == pc = "idle" /\ Failed

\* C3: in a run whose harvest ends in Failed, the merge / prune / write step
\* runs whenever the existing snapshot is not empty, and every record of the
\* existing snapshot dated at or after the cutoff is in the snapshot written.
C3_FailedHarvestKeepsSnapshot ==
    (RunOverFailed /\ existing_articles /= <<>>) =>
        /\ wrote
        /\ file_exists
        /\ \A i \in 1..Len(existing_articles) :
              existing_articles[i].date >= prune_date =>
                  existing_articles[i] \in Range(file)

\* a Failed run over a snapshot of which one record stays and one is pruned
C3_Witness ==
    /\ RunOverFailed
    /\ \E i \in 1..Len(existing_articles) : existing_articles[i].date >= prune_date
    /\ \E i \in 1..Len(existing_articles) : existing_articles[i].date < prune_date
    /\ file /= <<>>

\* C4: when the last page served carries no token and no request failed
\* terminally, the harvest ends in Done after exactly one answered request
\* per page and returns the matched records of the pages, in page order and
\* in document order within a page.
C4_PaginationConcatenates ==
    (pc = "returned" /\ exit /= "transport" /\ served /= <<>> /\ ~HasToken(last_token)) =>
        /\ exit = "exhausted"
        /\ ok_requests = Len(served)
        /\ new_articles = MatchedOfPages(served, categories)

\* a harvest of several pages, with a retried request, that returns records
\* of more than one page
C4_Witness ==
    /\ exit = "exhausted"
    /\ Len(served) = MaxPages
    /\ total_attempts > ok_requests
    /\ \A k \in 1..Len(served) : MatchedOfPage(PagePool[served[k]], categories) /= <<>>
    /\ served[1] /= served[2]

\* C5: while a page is requested the backoff sleeps so far are 2^1 .. 2^n
\* for n failed attempts; a response that arrives after two failures was
\* preceded by exactly the sleeps 2 and 4, is the third attempt, and is parsed.
C5_BackoffSequence ==
    /\ pc \in {"request", "parse"} =>
          BackoffWaits = [i \in 1..retry_count |-> 2 ^ i]
    /\ (pc = "parse" /\ retry_count = 2) =>
          /\ BackoffWaits = <<2, 4>>
          /\ attempts = 3
          /\ exit = "none"
          /\ response.kind /= "none"

\* a response that arrived at the third attempt
C5_Witness ==
    /\ pc = "parse"
    /\ retry_count = 2
    /\ response.kind = "page"
    /\ served /= <<>>

\* C6: a page is requested at most 3 times; the harvest gives up exactly when
\* 3 attempts for one page have failed; every page starts with a retry count
\* of 0, and n pages take at most 3n attempts.
C6_RetryCapPerPage ==
    /\ attempts <= max_retries
    /\ retry_count <= max_retries
    /\ pc = "request" => attempts = retry_count /\ retry_count < max_retries
    /\ pc = "parse" => attempts = retry_count + 1
    /\ exit = "transport" <=> (pc = "returned" /\ retry_count = max_retries /\ attempts = 3)
    /\ total_attempts <= 3 * (Len(served) + 1)
    /\ exit = "exhausted" => total_attempts <= 3 * Len(served)

\* the second page fails for good after the first page took all 3 attempts
C6_Witness ==
    /\ exit = "transport"
    /\ Len(served) = 1
    /\ total_attempts = 6

\* C7: the first request carries the window (from, until, and set when there
\* is a filter); each later request is the verb and the token of the page
\* before it, nothing else, and is sent after a sleep of 3 seconds.
C7_ContinuationRequests ==
    pc \in {"request", "parse"} =>
        IF ok_requests = 0 \/ (pc = "parse" /\ ok_requests = 1)
        THEN /\ params.verb = "ListRecords"
             /\ params.from = start_date
             /\ params.until = today
             /\ DOMAIN params = {"verb", "metadataPrefix", "from", "until"}
                                \cup (IF categories /= <<>> THEN {"set"} ELSE {})
             /\ categories /= <<>> => params.set = <<"c", "s">>
        ELSE /\ HasToken(last_token)
             /\ DOMAIN params = {"verb", "resumptionToken"}
             /\ params.verb = "ListRecords"
             /\ params.resumptionToken = last_token
             /\ waits /= <<>> /\ waits[1] = 3

\* a follow-up request that is being retried
C7_Witness ==
    /\ pc = "request"
    /\ served /= <<>>
    /\ retry_count = 1
    /\ params.resumptionToken = "tok2"

\* C8: a snapshot written by the merge step holds at most one record per
\* identifier.
C8_DedupInvariant ==
    \A i, j \in 1..Len(file) : file[i].identifier = file[j].identifier => i = j

\* a written snapshot whose fresh batch repeats an identifier that the
\* existing snapshot holds too
C8_Witness ==
    /\ wrote
    /\ \E i, j \in 1..Len(new_articles) :
          i /= j /\ new_articles[i].identifier = new_articles[j].identifier
    /\ Ids(existing_articles) \cap Ids(new_articles) /= {}
    /\ Len(file) >= 2

\* C9: every record of the snapshot written by a run is dated at or after
\* that run's cutoff.
C9_RetentionInvariant ==
    wrote => \A i \in 1..Len(file) : file[i].date >= prune_date

\* a run that prunes a record of the existing snapshot and one of the fresh
\* batch
C9_Witness ==
    /\ wrote
    /\ \E i \in 1..Len(existing_articles) :
          /\ existing_articles[i].date < prune_date
          /\ existing_articles[i].identifier \notin Ids(new_articles)
    /\ \E i \in 1..Len(new_articles) : new_articles[i].date < prune_date
    /\ file /= <<>>

\* C10: for an identifier of the fresh batch, the snapshot written holds the
\* last fresh record with that identifier, and only it, when that record is
\* dated at or after the cutoff, and no record with that identifier otherwise.
C10_FreshWins ==
    wrote => \A id \in Ids(new_articles) :
        LET fresh == LastWith(new_articles, id)
            held == {i \in 1..Len(file) : file[i].identifier = id}
        IN IF fresh.date >= prune_date
           THEN held /= {} /\ \A i \in held : file[i] = fresh
           ELSE held = {}

\* the existing snapshot and the fresh batch differ on an identifier, the
\* fresh batch holds it twice with different values, and the fresh one is kept
C10_Witness ==
    /\ wrote
    /\ \E i \in 1..Len(existing_articles), j, k \in 1..Len(new_articles) :
          /\ j < k
          /\ existing_articles[i].identifier = new_articles[k].identifier
          /\ new_articles[j].identifier = new_articles[k].identifier
          /\ new_articles[j] /= new_articles[k]
          /\ LastWith(new_articles, new_articles[k].identifier) = new_articles[k]
          /\ existing_articles[i] /= new_articles[k]
          /\ new_articles[k] \in Range(file)

\* the record the overlay holds for an identifier: the last fresh one, or
\* else the last existing one
Winner(existing, new, id) ==
    IF id \in Ids(new) THEN LastWith(new, id) ELSE LastWith(existing, id)

\* where an identifier first shows up in existing followed by new
FirstSeen(existing, new, id) ==
    LET both == existing \o new
    IN CHOOSE i \in 1..Len(both) :
           /\ both[i].identifier = id
           /\ \A j \in 1..(i - 1) : both[j].identifier /= id

\* C11: merging the same fresh batch into the result of a merge gives that
\* result again, record for record and in the same order.
C11_IdempotentMerge ==
    wrote => Reconciled(file, new_articles, prune_date) = file

\* a merge that overwrote a record, pruned one and kept two of one date
C11_Witness ==
    /\ wrote
    /\ Ids(existing_articles) \cap Ids(new_articles) /= {}
    /\ Len(file) >= 2
    /\ \E i \in 1..(Len(file) - 1) : file[i].date = file[i + 1].date
    /\ Len(file) < Len(all_articles(existing_articles, new_articles))

\* C12: the snapshot written holds exactly the overlay's records dated at or
\* after the cutoff: one per identifier whose winner is that recent, nothing
\* else, the winner dated on the cutoff included.
C12_ExactPruneMembership ==
    wrote =>
        LET ids == Ids(existing_articles) \cup Ids(new_articles)
            kept == {id \in ids :
                        Winner(existing_articles, new_articles, id).date >= prune_date}
        IN /\ Range(file) = {Winner(existing_articles, new_articles, id) : id \in kept}
           /\ Len(file) = Cardinality(kept)

\* existing [a dated before the cutoff], fresh [b dated on the cutoff]: the
\* snapshot written is [b]
C12_Witness ==
    /\ wrote
    /\ prune_date = 2
    /\ existing_articles = <<record_data(RawA1)>>
    /\ new_articles = <<record_data(RawB)>>
    /\ file = <<record_data(RawB)>>

\* C13: the snapshot written is in descending date order, and records of one
\* date are in the overlay's order: by first appearance in the existing
\* snapshot followed by the fresh batch.
C13_OutputOrdering ==
    wrote => \A i, j \in 1..Len(file) :
        i < j =>
            /\ file[i].date >= file[j].date
            /\ file[i].date = file[j].date =>
                  FirstSeen(existing_articles, new_articles, file[i].identifier)
                  < FirstSeen(existing_articles, new_articles, file[j].identifier)

\* two records of one date, the later one of the overlay overwritten by the
\* fresh batch, under a record of a later date that came last
C13_Witness ==
    /\ wrote
    /\ Len(file) = 3
    /\ file[2].date = file[3].date
    /\ file[1].date > file[2].date
    /\ file[1].identifier \notin Ids(existing_articles)
    /\ file[3].identifier \in Ids(existing_articles) \cap Ids(new_articles)

\* a code of the form archive.subclass: exactly one dot
TwoSegment(code) == Cardinality({i \in 1..Len(code) : code[i] = "."}) = 1

\* archive:subclass for the code archive.subclass
WithColon(code) == [i \in 1..Len(code) |-> IF code[i] = "." THEN ":" ELSE code[i]]

\* the rule as stated, for one set spec
SpecMatches(code, set_spec) ==
    IF TwoSegment(code)
    THEN \/ set_spec = WithColon(code)
         \/ \E k \in 1..Len(set_spec) :
               /\ set_spec[k] = ":"
               /\ [i \in 1..(Len(set_spec) - k) |-> set_spec[k + i]] = WithColon(code)
    ELSE \E k \in 0..Len(set_spec) :
            /\ k + Len(code) <= Len(set_spec)
            /\ \A i \in 1..Len(code) : set_spec[k + i] = code[i]

\* C14: a code archive.subclass matches a record iff one of its set specs is
\* archive:subclass or ends with :archive:subclass; any other code matches
\* iff it is a substring of one of the set specs.
C14_PerCodeMatching ==
    probe.done =>
        (probe.matched <=>
            \E i \in 1..Len(probe.set_specs) : SpecMatches(probe.cat, probe.set_specs[i]))

\* cs.AI against 'xcs:AI', which only ends with cs:AI, and 'x:cs:AI', which
\* ends with :cs:AI: a match, by the second set spec
C14_Witness ==
    /\ probe.done
    /\ probe.cat = <<"c", "s", ".", "A", "I">>
    /\ probe.set_specs = << <<"x", "c", "s", ":", "A", "I">>,
                            <<"x", ":", "c", "s", ":", "A", "I">> >>
    /\ probe.matched

\* the filter as stated: no filter, or some code of it matches the record
PassesFilter(raw, cats) ==
    cats = <<>> \/ \E k \in 1..Len(cats) : CodeMatches(cats[k], raw.set_specs)

\* the records of the pages served, in page and document order
RECURSIVE RawsOfPages(_)
RawsOfPages(pages) ==
    IF pages = <<>> THEN <<>> ELSE PagePool[Head(pages)] \o RawsOfPages(Tail(pages))

Reverse(q) == [i \in 1..Len(q) |-> q[Len(q) + 1 - i]]

\* all_records as the code builds it from the pages served, for a filter
RECURSIVE AccumulateAll(_, _, _)
AccumulateAll(pages, cats, acc) ==
    IF pages = <<>> THEN acc
    ELSE AccumulateAll(Tail(pages), cats, Accumulate(acc, PagePool[Head(pages)], cats))

\* C15 as first stated: every non-deleted record is appended iff the filter
\* is empty or one of its codes matches the record.
C15_Original ==
    LET sel == SelectSeq(RawsOfPages(served),
                         LAMBDA r : ~r.deleted /\ PassesFilter(r, categories))
    IN all_records = [i \in 1..Len(sel) |-> record_data(sel[i])]

\* C15: a non-deleted record that carries a metadata block is appended iff
\* the filter is empty or one of its codes matches the record; no record
\* that matches no code is in the list; the order of the codes is immaterial.
C15_FilterIsOr ==
    LET raws == RawsOfPages(served)
        sel == SelectSeq(raws, LAMBDA r : ~r.deleted /\ r.has_meta
                                          /\ PassesFilter(r, categories))
    IN /\ all_records = [i \in 1..Len(sel) |-> record_data(sel[i])]
       /\ \A j \in 1..Len(raws) :
             ~PassesFilter(raws[j], categories) =>
                 record_data(raws[j]) \notin Range(all_records)
       /\ all_records = AccumulateAll(served, Reverse(categories), <<>>)

\* a filter of two codes of which a record of the pages matches only the
\* second, another only the first, and a third none
C15_Witness ==
    /\ Len(categories) = 2
    /\ \E j \in 1..Len(RawsOfPages(served)) :
          LET r == RawsOfPages(served)[j]
          IN /\ ~CodeMatches(categories[1], r.set_specs)
             /\ CodeMatches(categories[2], r.set_specs)
             /\ record_data(r) \in Range(all_records)
    /\ \E j \in 1..Len(RawsOfPages(served)) :
          /\ ~RawsOfPages(served)[j].deleted
          /\ ~PassesFilter(RawsOfPages(served)[j], categories)
    /\ all_records /= <<>>

\* the non-deleted records of the pages served that pass the filter, with a
\* metadata block or, when any is TRUE, also without one
HarvestedRaws(any) ==
    SelectSeq(RawsOfPages(served),
              LAMBDA r : ~r.deleted /\ (any \/ r.has_meta) /\ PassesFilter(r, categories))

\* C16 as first stated: one Record is accumulated for every non-deleted
\* record that passes the filter, a record without a metadata block included.
C16_Original == Len(all_records) = Len(HarvestedRaws(TRUE))

\* C16: for every non-deleted record that carries a metadata block and
\* passes the filter exactly one Record is accumulated, in document order,
\* with 'N/A' for each of title, description, date, identifier that is
\* missing and the empty list for missing creators or subjects; a record
\* without a metadata block is skipped, and the records after it are
\* processed.
C16_MissingFields ==
    LET raws == HarvestedRaws(FALSE)
    IN /\ Len(all_records) = Len(raws)
       /\ \A i \in 1..Len(raws) :
             /\ i <= Len(all_records)
             /\ all_records[i].announcement_date = raws[i].datestamp
             /\ raws[i].title = <<>> => all_records[i].title = "N/A"
             /\ raws[i].description = <<>> => all_records[i].description = "N/A"
             /\ raws[i].identifier = <<>> => all_records[i].identifier = "N/A"
             /\ raws[i].identifier /= <<>> =>
                   all_records[i].identifier = raws[i].identifier[1]
             /\ raws[i].date = <<>> => all_records[i].date = NA
             /\ raws[i].date /= <<>> => all_records[i].date = raws[i].date[1]
             /\ all_records[i].creators = raws[i].creator
             /\ all_records[i].subjects = raws[i].subject

\* a page with a record that lacks every field, and a page with a record
\* without a metadata block that is followed by a harvested record
C16_Witness ==
    /\ \E i \in 1..Len(all_records) :
          /\ all_records[i].identifier = "N/A"
          /\ all_records[i].title = "N/A"
          /\ all_records[i].date = NA
          /\ all_records[i].creators = <<>>
    /\ \E j \in 1..Len(RawsOfPages(served)) :
          /\ ~RawsOfPages(served)[j].has_meta
          /\ ~RawsOfPages(served)[j].deleted
    /\ all_records[Len(all_records)].identifier = "a"
    /\ all_records[Len(all_records)].date = 3

\* C18: a record whose header is flagged deleted is never appended, whatever
\* its set specs and the filter, and the records after it in the page are
\* processed.
C18_DeletedNeverHarvested ==
    \A k \in 1..Len(served) :
        LET page == PagePool[served[k]]
        IN \A j \in 1..Len(page) :
              page[j].deleted =>
                  /\ record_data(page[j]) \notin Range(all_records)
                  /\ \A l \in (j + 1)..Len(page) :
                        Matched(page[l], categories) =>
                            record_data(page[l]) \in Range(all_records)

\* no filter, and a page with a deleted record that has metadata, followed by
\* a record that was harvested
C18_Witness ==
    /\ categories = <<>>
    /\ \E k \in 1..Len(served) :
          LET page == PagePool[served[k]]
          IN \E j \in 1..Len(page) :
                /\ page[j].deleted
                /\ page[j].has_meta
                /\ j < Len(page)
                /\ record_data(page[j + 1]) \in Range(all_records)

\* C17: when the output file exists and cannot be read, the run goes on with
\* an empty existing snapshot and the default start date, and the harvest
\* is performed: the script ends only after fetch_arxiv_records returned.
C17_ReadFailureRecovered ==
    loaded = "error" =>
        /\ existing_articles = <<>>
        /\ start_date = today - RETENTION_DAYS
        /\ pc \in {"request", "parse", "returned", "idle"}
        /\ pc = "idle" => exit /= "none"
        /\ (pc = "request" /\ ok_requests = 0) => params.from = today - RETENTION_DAYS

\* the first request of a run that could not read a file whose records would
\* have given another start date
C17_Witness ==
    /\ loaded = "error"
    /\ pc = "request"
    /\ file /= <<>>
    /\ \A i \in 1..Len(file) : file[i].announcement_date \in {15, 16}

\* the greatest announcement_date of a snapshot
Greatest(articles) ==
    CHOOSE x \in {articles[i].announcement_date : i \in 1..Len(articles)} :
        \A i \in 1..Len(articles) : articles[i].announcement_date <= x

\* the start date as stated: the greatest announcement_date of a snapshot
\* that is not empty, when it is a date, and the default otherwise
StatedStart ==
    IF existing_articles /= <<>> /\ Greatest(existing_articles) /= BadStamp
    THEN Greatest(existing_articles)
    ELSE today - RETENTION_DAYS

\* C19 as first stated: the start date is the greatest announcement_date of
\* the existing snapshot, or the default, and is never later than today.
C19_Original ==
    /\ start_date = StatedStart
    /\ start_date <= today

\* C19: the start date is the greatest announcement_date of the existing
\* snapshot when that snapshot is not empty and the value is a date, and
\* the default otherwise, replaced by today when it is later than today; it
\* is never later than today.
C19_WindowStart ==
    /\ start_date = IF StatedStart > today THEN today ELSE StatedStart
    /\ start_date <= today
    /\ pc = "request" /\ ok_requests = 0 => params.from = start_date

\* a run over a snapshot whose greatest announcement_date is later than today
C19_Witness ==
    /\ pc = "request"
    /\ existing_articles /= <<>>
    /\ Greatest(existing_articles) /= BadStamp
    /\ Greatest(existing_articles) > today
    /\ start_date = today

\* C20: with an upstream that ends the list after finitely many pages, the
\* harvest always eventually returns, as Done or as Failed; no page's fetch
\* phase makes more than 3 attempts; and once the harvest has returned no
\* further request is issued.
C20_HarvestTerminates ==
    /\ <>(pc = "returned" /\ (Done \/ Failed))
    /\ [](attempts <= max_retries)
    /\ [][pc = "returned" => /\ pc' = "returned"
                             /\ total_attempts' = total_attempts
                             /\ served' = served]_vars

\* a harvest that returned after MaxPages-many pages, each of them answered
\* only at the last attempt allowed
C20_Witness ==
    /\ pc = "returned"
    /\ exit = "exhausted"
    /\ Len(served) = 2
    /\ total_attempts = 2 * max_retries
    /\ Len(waits) = 3

====
